---- MODULE Spec2Model ----
(***************************************************************************)
(* NES/SNES controller to Atari joystick converter (nes_to_c64).           *)
(* The model follows the newest revision of the sketch, the one with SNES  *)
(* mouse support: setup() and loop() with everything they call.            *)
(*                                                                         *)
(* unsigned long values (millis) are held as the 32-bit two's-complement   *)
(* integer with the same bit pattern: -20 stands for 2^32 - 20, and the    *)
(* clock steps from -1 to 0 where the hardware counter wraps.              *)
(***************************************************************************)
EXTENDS Integers, Sequences, FiniteSets, TLC

\* ------------------------------------------------------------ constants
\* EEPROM addresses (sizeof(int) = sizeof(size_t) = 2 on the AVR target)
SETTING_JOYPORT == 0
SETTING_FIRE2_UP == 2
SETTING_AUTOFIRE1 == 4
SETTING_AUTOFIRE2 == 6
SETTING_AUTOFIRE_RATE_MILLIS == 8
SETTING_FIRE_REVERSED == 10

AUTOFIRE_RATE_MILLIS_MAX == 150
AUTOFIRE_RATE_MILLIS_MIN == 50
AUTOFIRE_RATE_ADJUST_DELTA == 10
BLINK_MILLIS == 50
MOUSE_MOVEMENT_THRESHOLD == 1

JOY2_UP == 2
JOY2_DOWN == 3
JOY2_LEFT == 4
JOY2_RIGHT == 5
JOY2_FIRE1 == 6
JOY2_FIRE2 == 7
JOY1_UP == 8
JOY1_DOWN == 9
JOY1_LEFT == 10
JOY1_RIGHT == 11
JOY1_FIRE1 == 12
JOY1_FIRE2 == 13
\* A4 and A5 are digital pins 18 and 19
JOYPORT_0_LED == 18
JOYPORT_1_LED == 19

NUM_COMBOS == 8
NUM_FIRE_BUTTONS == 2

\* ------------------------------------------------------------ bounds
\* loop() iterations explored after setup()
MaxCycles == 4

\* ------------------------------------------------------------ domains
Addrs == {SETTING_JOYPORT, SETTING_FIRE2_UP, SETTING_AUTOFIRE1, SETTING_AUTOFIRE2,
          SETTING_AUTOFIRE_RATE_MILLIS, SETTING_FIRE_REVERSED}

JoyPinIds == JOY2_UP .. JOY1_FIRE2

LedIds == {JOYPORT_0_LED, JOYPORT_1_LED}

\* The line set of a port as setJoyPort assigns it
PortPins(joyPort) ==
  IF joyPort = 0
  THEN [joyFire1 |-> JOY1_FIRE1, joyFire2 |-> JOY1_FIRE2, joyUp |-> JOY1_UP,
        joyDown |-> JOY1_DOWN, joyLeft |-> JOY1_LEFT, joyRight |-> JOY1_RIGHT]
  ELSE [joyFire1 |-> JOY2_FIRE1, joyFire2 |-> JOY2_FIRE2, joyUp |-> JOY2_UP,
        joyDown |-> JOY2_DOWN, joyLeft |-> JOY2_LEFT, joyRight |-> JOY2_RIGHT]

PortLed(joyPort) == IF joyPort = 0 THEN JOYPORT_0_LED ELSE JOYPORT_1_LED

\* bool <- byte and byte <- bool, as the C++ conversions do
ByteToBool(b) == b # 0

BoolToByte(b) == IF b THEN 1 ELSE 0

\* unsigned (now - since) >= k for 0 <= k < 2^31: a negative difference is the
\* bit pattern of a value of 2^31 or more
ElapsedAtLeast(now, since, k) == (now - since < 0) \/ (now - since >= k)

\* ------------------------------------------------------------ state
VARIABLES
  pc,                 \* "setup" before setup() has run, "loop" after
  millis,             \* the hardware clock, as of the last millis() reading
  cycle,              \* loop() iterations so far
  eeprom,             \* the durable store, byte per address
  writes,             \* EEPROM.write calls of the last step: <<addr, old, new>>
  pins,               \* pinMode of each joystick line: "INPUT" floats, "OUTPUT" holds low
  led,                \* level of the two indicator lines
  joy,                \* joyFire1 .. joyRight: line ids of the selected port
  currentJoyPort,
  currentJoyLED,
  currentMillis,
  autoFireRateMillis,
  blinkMillis,
  fireReversed,
  fireButtons,        \* the two FireButton structs
  comboPressed,       \* settingCombos[i].comboPressed
  nes,                \* the decoded button globals (nesA .. snesMouse, mouse fields)
  report,             \* the bits the last poll sampled true (32 samples at most)
  fired,              \* handlers called by the last loop(), in call order
  suppressed,         \* the last loop() returned from the combo scan
  afRun,              \* per fire button: an autofire run is in progress
  afLast              \* per fire button: timestamp of the run's start or last flip

vars == <<pc, millis, cycle, eeprom, writes, pins, led, joy, currentJoyPort,
          currentJoyLED, currentMillis, autoFireRateMillis, blinkMillis,
          fireReversed, fireButtons, comboPressed, nes, report, fired,
          suppressed, afRun, afLast>>

\* The program's globals as one record, threaded through the operators below
Machine ==
  [eeprom |-> eeprom, writes |-> writes, pins |-> pins, led |-> led, joy |-> joy,
   currentJoyPort |-> currentJoyPort, currentJoyLED |-> currentJoyLED,
   currentMillis |-> currentMillis, autoFireRateMillis |-> autoFireRateMillis,
   blinkMillis |-> blinkMillis, fireReversed |-> fireReversed,
   fireButtons |-> fireButtons, comboPressed |-> comboPressed, nes |-> nes,
   fired |-> fired, suppressed |-> suppressed]

\* ------------------------------------------------------------ primitives
EepromRead(m, addr) == m.eeprom[addr]

EepromWrite(m, addr, val) ==
  [m EXCEPT !.eeprom[addr] = val,
            !.writes = Append(@, <<addr, m.eeprom[addr], val>>)]

joyPress(m, pin) == [m EXCEPT !.pins[pin] = "OUTPUT"]

joyRelease(m, pin) == [m EXCEPT !.pins[pin] = "INPUT"]

\* mutant: a released button leaves its line as it was
joyState_NoRelease(m, pin, state) == IF state THEN joyPress(m, pin) ELSE m

joyState(m, pin, state) == IF state THEN joyPress(m, pin) ELSE joyRelease(m, pin)

\* ------------------------------------------------------------ setJoyPort
\* mutant: the port is written whether or not it changed
setJoyPort_AlwaysWrites(m, joyPort) ==
  LET p == IF joyPort = 0 THEN 0 ELSE 1
      m1 == [m EXCEPT !.joy = PortPins(p),
                      !.led = [l \in LedIds |-> IF l = PortLed(p) THEN "HIGH" ELSE "LOW"],
                      !.currentJoyLED = PortLed(p)]
  IN EepromWrite([m1 EXCEPT !.currentJoyPort = p], SETTING_JOYPORT, p)

setJoyPort(m, joyPort) ==
  LET p == IF joyPort = 0 THEN 0 ELSE 1
      m1 == [m EXCEPT !.joy = PortPins(p),
                      !.led = [l \in LedIds |-> IF l = PortLed(p) THEN "HIGH" ELSE "LOW"],
                      !.currentJoyLED = PortLed(p)]
  IN IF m1.currentJoyPort # p
     THEN EepromWrite([m1 EXCEPT !.currentJoyPort = p], SETTING_JOYPORT, p)
     ELSE m1

\* ------------------------------------------------------------ blink
startJoyBlink(m) ==
  IF m.blinkMillis = 0
  THEN [m EXCEPT !.led[m.currentJoyLED] = "LOW", !.blinkMillis = m.currentMillis]
  ELSE m

endJoyBlink(m) ==
  IF m.blinkMillis # 0 /\ ElapsedAtLeast(m.currentMillis, m.blinkMillis, BLINK_MILLIS)
  THEN [m EXCEPT !.blinkMillis = 0, !.led[m.currentJoyLED] = "HIGH"]
  ELSE m

\* joyFire(fireButton, state); i is the index of the FireButton, whose joyFire
\* member points at joyFire1 or joyFire2
FirePin(m, i) == IF i = 0 THEN m.joy.joyFire1 ELSE m.joy.joyFire2

FireSignal(m, i) == IF i = 0 THEN m.nes.nesFire1 ELSE m.nes.nesFire2

joyFire(m, i, state) ==
  LET m1 == joyState(m, FirePin(m, i), state)
  IN IF state
     THEN IF ~m1.fireButtons[i].blinked
          THEN startJoyBlink([m1 EXCEPT !.fireButtons[i].blinked = TRUE])
          ELSE m1
     ELSE [m1 EXCEPT !.fireButtons[i].blinked = FALSE]

\* ------------------------------------------------------------ settings handlers
\* mutant: the new flag is not written to the store
toggleFire2IsUp_NotStored(m) == [m EXCEPT !.fireButtons[1].fireIsUp = ~@]

toggleFire2IsUp(m) ==
  LET m1 == [m EXCEPT !.fireButtons[1].fireIsUp = ~@]
  IN EepromWrite(m1, SETTING_FIRE2_UP, BoolToByte(m1.fireButtons[1].fireIsUp))

AutoFireSetting(i) == IF i = 0 THEN SETTING_AUTOFIRE1 ELSE SETTING_AUTOFIRE2

\* mutant: the line of the button is left as it was
toggleAutoFire_KeepsLine(m, i) ==
  LET m1 == [m EXCEPT !.fireButtons[i].autoFire = ~@]
      m2 == EepromWrite(m1, AutoFireSetting(i), BoolToByte(m1.fireButtons[i].autoFire))
  IN [m2 EXCEPT !.fireButtons[i].autoFireStateMillis = 0]

toggleAutoFire(m, i) ==
  LET m1 == [m EXCEPT !.fireButtons[i].autoFire = ~@]
      m2 == EepromWrite(m1, AutoFireSetting(i), BoolToByte(m1.fireButtons[i].autoFire))
      m3 == [m2 EXCEPT !.fireButtons[i].autoFireStateMillis = 0]
  IN joyRelease(m3, FirePin(m3, i))

\* mutant: the step has the sign of decreaseFireRate
increasFireRate_StepsUp(m) ==
  IF m.autoFireRateMillis > AUTOFIRE_RATE_MILLIS_MIN
  THEN LET r == m.autoFireRateMillis + AUTOFIRE_RATE_ADJUST_DELTA
           c == IF r < AUTOFIRE_RATE_MILLIS_MIN THEN AUTOFIRE_RATE_MILLIS_MIN ELSE r
       IN EepromWrite([m EXCEPT !.autoFireRateMillis = c], SETTING_AUTOFIRE_RATE_MILLIS, c)
  ELSE m

\* mutant: the outer range test is missing, so the clamped rate is always written
increasFireRate_AlwaysWrites(m) ==
  LET r == m.autoFireRateMillis - AUTOFIRE_RATE_ADJUST_DELTA
      c == IF r < AUTOFIRE_RATE_MILLIS_MIN THEN AUTOFIRE_RATE_MILLIS_MIN ELSE r
  IN EepromWrite([m EXCEPT !.autoFireRateMillis = c], SETTING_AUTOFIRE_RATE_MILLIS, c)

increasFireRate(m) ==
  IF m.autoFireRateMillis > AUTOFIRE_RATE_MILLIS_MIN
  THEN LET r == m.autoFireRateMillis - AUTOFIRE_RATE_ADJUST_DELTA
           c == IF r < AUTOFIRE_RATE_MILLIS_MIN THEN AUTOFIRE_RATE_MILLIS_MIN ELSE r
       IN EepromWrite([m EXCEPT !.autoFireRateMillis = c], SETTING_AUTOFIRE_RATE_MILLIS, c)
  ELSE m

\* mutant: the inner range test is missing
decreaseFireRate_NoClamp(m) ==
  IF m.autoFireRateMillis < AUTOFIRE_RATE_MILLIS_MAX
  THEN LET r == m.autoFireRateMillis + AUTOFIRE_RATE_ADJUST_DELTA
       IN EepromWrite([m EXCEPT !.autoFireRateMillis = r], SETTING_AUTOFIRE_RATE_MILLIS, r)
  ELSE m

decreaseFireRate(m) ==
  IF m.autoFireRateMillis < AUTOFIRE_RATE_MILLIS_MAX
  THEN LET r == m.autoFireRateMillis + AUTOFIRE_RATE_ADJUST_DELTA
           c == IF r > AUTOFIRE_RATE_MILLIS_MAX THEN AUTOFIRE_RATE_MILLIS_MAX ELSE r
       IN EepromWrite([m EXCEPT !.autoFireRateMillis = c], SETTING_AUTOFIRE_RATE_MILLIS, c)
  ELSE m

toggleFireReversed(m) ==
  LET m1 == [m EXCEPT !.fireReversed = ~@]
  IN EepromWrite(m1, SETTING_FIRE_REVERSED, BoolToByte(m1.fireReversed))

\* ------------------------------------------------------------ gesture table
settingCombos ==
  [i \in 0 .. NUM_COMBOS - 1 |->
     CASE i = 0 -> [specialButton |-> "nesStart", comboButton |-> "nesUp"]
       [] i = 1 -> [specialButton |-> "nesStart", comboButton |-> "nesDown"]
       [] i = 2 -> [specialButton |-> "nesStart", comboButton |-> "nesFire1"]
       [] i = 3 -> [specialButton |-> "nesStart", comboButton |-> "nesFire2"]
       [] i = 4 -> [specialButton |-> "nesSelect", comboButton |-> "nesUp"]
       [] i = 5 -> [specialButton |-> "nesSelect", comboButton |-> "nesLeft"]
       [] i = 6 -> [specialButton |-> "nesSelect", comboButton |-> "nesRight"]
       [] i = 7 -> [specialButton |-> "nesSelect", comboButton |-> "nesFire2"]]

\* settingCombos[i].handler()
handler(m, i) ==
  CASE i = 0 -> increasFireRate(m)
    [] i = 1 -> decreaseFireRate(m)
    [] i = 2 -> toggleAutoFire(m, 0)
    [] i = 3 -> toggleAutoFire(m, 1)
    [] i = 4 -> toggleFire2IsUp(m)
    [] i = 5 -> setJoyPort(m, 0)
    [] i = 6 -> setJoyPort(m, 1)
    [] i = 7 -> toggleFireReversed(m)

\* the condition of the combo scan's if
ComboHeld(n, i) == n[settingCombos[i].specialButton] /\ n[settingCombos[i].comboButton]

\* ------------------------------------------------------------ decoder
\* mutant: the level of the data line is returned as it is, high for pressed
Bit_NotInverted(r, k) == k \notin r

\* nesRead() of sample k of the poll: r is the set of samples whose data line was low
Bit(r, k) == k \in r

BitVal(r, k) == IF k \in r THEN 1 ELSE 0

\* readMouseDelta(), its seven samples starting at sample first
readMouseDelta(r, first) ==
  BitVal(r, first) * 64 + BitVal(r, first + 1) * 32 + BitVal(r, first + 2) * 16
  + BitVal(r, first + 3) * 8 + BitVal(r, first + 4) * 4 + BitVal(r, first + 5) * 2
  + BitVal(r, first + 6)

\* mutant: the signature samples $0C-$0E are not looked at
MouseSignature_MarkerOnly(r) == Bit(r, 15)

\* snesMouse = ((sig == 0) && nesRead())
MouseSignature(r) == BitVal(r, 12) + BitVal(r, 13) + BitVal(r, 14) = 0 /\ Bit(r, 15)

\* mutant: one extension sample reading true is taken for an NES pad
snesModeOf_AnyExtension(raw) == ~(raw.snesA \/ raw.snesX \/ raw.snesL \/ raw.snesR)

\* snesMode = !(snesA && snesX && snesL && snesR)
snesModeOf(raw) == ~(raw.snesA /\ raw.snesX /\ raw.snesL /\ raw.snesR)

\* mutant: the reversal flag has no effect
swapFire_Keeps(n) == n

\* the exchange of nesFire1 and nesFire2 through temp
swapFire(n) == [n EXCEPT !.nesFire1 = n.nesFire2, !.nesFire2 = n.nesFire1]

\* mutant: Start and Select keep the values sampled
mouseButtons_KeepsStartSelect(raw) ==
  [raw EXCEPT !.nesFire1 = raw.snesX, !.nesFire2 = raw.snesA,
              !.snesL = FALSE, !.snesR = FALSE]

\* the mouse branch's assignments of the fire signals, Start, Select and the shoulders
mouseButtons(raw) ==
  [raw EXCEPT !.nesFire1 = raw.snesX, !.nesFire2 = raw.snesA,
              !.nesSelect = FALSE, !.nesStart = FALSE,
              !.snesL = FALSE, !.snesR = FALSE]

nesReadButtons(m, r) ==
  LET raw == [m.nes EXCEPT
                !.nesA = Bit(r, 0), !.snesB = Bit(r, 0),
                !.nesB = Bit(r, 1), !.snesY = Bit(r, 1),
                !.nesSelect = Bit(r, 2), !.nesStart = Bit(r, 3),
                !.nesUp = Bit(r, 4), !.nesDown = Bit(r, 5),
                !.nesLeft = Bit(r, 6), !.nesRight = Bit(r, 7),
                !.snesA = Bit(r, 8), !.snesX = Bit(r, 9),
                !.snesL = Bit(r, 10), !.snesR = Bit(r, 11),
                !.snesMouse = MouseSignature(r)]
      \* the mouse branch
      dirY == Bit(r, 16)
      dY == readMouseDelta(r, 17)
      dirX == Bit(r, 24)
      dX == readMouseDelta(r, 25)
      mo1 == mouseButtons([raw EXCEPT !.mouseDirY = dirY, !.mouseDY = dY,
                                      !.mouseDirX = dirX, !.mouseDX = dX])
      mo2 == IF dX > MOUSE_MOVEMENT_THRESHOLD
             THEN [mo1 EXCEPT !.nesLeft = dirX, !.nesRight = ~dirX]
             ELSE mo1
      mo3 == IF dY > MOUSE_MOVEMENT_THRESHOLD
             THEN [mo2 EXCEPT !.nesUp = dirY, !.nesDown = ~dirY]
             ELSE mo2
      \* the pad branch
      mode == snesModeOf(raw)
      pa1 == IF mode
             THEN [raw EXCEPT !.snesMode = TRUE,
                              !.nesFire1 = raw.snesB, !.nesFire2 = raw.snesA]
             ELSE [raw EXCEPT !.snesMode = FALSE,
                              !.snesA = FALSE, !.snesX = FALSE,
                              !.snesL = FALSE, !.snesR = FALSE,
                              !.nesFire1 = raw.nesB, !.nesFire2 = raw.nesA]
      pa2 == IF m.fireReversed THEN swapFire(pa1) ELSE pa1
  IN [m EXCEPT !.nes = IF raw.snesMouse THEN mo3 ELSE pa2]

\* ------------------------------------------------------------ loop(): combo scan
\* mutant: the armed flag is not cleared, so the handler is called every cycle
comboRelease_KeepsArmed(m, i) == handler([m EXCEPT !.fired = Append(@, i)], i)

\* mutant: the handler is called twice
comboRelease_FiresTwice(m, i) ==
  LET m1 == handler([m EXCEPT !.comboPressed[i] = FALSE, !.fired = Append(@, i)], i)
  IN handler([m1 EXCEPT !.fired = Append(@, i)], i)

\* the else-if branch of the combo scan: the armed flag is cleared and the handler called
comboRelease(m, i) ==
  handler([m EXCEPT !.comboPressed[i] = FALSE, !.fired = Append(@, i)], i)

\* mutant: an entry acts while its chord is held, not when it is let go
RECURSIVE comboScan_ActsOnHold(_, _)
comboScan_ActsOnHold(m, i) ==
  IF i >= NUM_COMBOS
  THEN m
  ELSE IF ComboHeld(m.nes, i)
       THEN handler([m EXCEPT !.comboPressed[i] = TRUE, !.suppressed = TRUE], i)
       ELSE IF m.comboPressed[i]
            THEN comboScan_ActsOnHold([m EXCEPT !.comboPressed[i] = FALSE], i + 1)
            ELSE comboScan_ActsOnHold(m, i + 1)

\* mutant: an entry whose chord is not held acts whether it was armed or not
RECURSIVE comboScan_FiresUnarmed(_, _)
comboScan_FiresUnarmed(m, i) ==
  IF i >= NUM_COMBOS
  THEN m
  ELSE IF ComboHeld(m.nes, i)
       THEN [m EXCEPT !.comboPressed[i] = TRUE, !.suppressed = TRUE]
       ELSE comboScan_FiresUnarmed(comboRelease(m, i), i + 1)

\* the for loop over settingCombos from index i on; suppressed is the return
RECURSIVE comboScan(_, _)
comboScan(m, i) ==
  IF i >= NUM_COMBOS
  THEN m
  ELSE IF ComboHeld(m.nes, i)
       THEN [m EXCEPT !.comboPressed[i] = TRUE, !.suppressed = TRUE]
       ELSE IF m.comboPressed[i]
            THEN comboScan(comboRelease(m, i), i + 1)
            ELSE comboScan(m, i + 1)

\* ------------------------------------------------------------ loop(): output driver
\* mutant: a released fire button leaves the autofire timer running
fireButtonStep_KeepsTimer(m, i) ==
  LET fb == m.fireButtons[i]
  IN IF fb.fireIsUp
     THEN joyRelease(m, FirePin(m, i))
     ELSE IF fb.autoFire /\ FireSignal(m, i)
          THEN IF fb.autoFireStateMillis = 0
               THEN joyFire([m EXCEPT !.fireButtons[i].autoFireStateMillis = m.currentMillis,
                                      !.fireButtons[i].autoFirePress = TRUE], i, TRUE)
               ELSE IF ElapsedAtLeast(m.currentMillis, fb.autoFireStateMillis,
                                      m.autoFireRateMillis)
                    THEN joyFire([m EXCEPT !.fireButtons[i].autoFireStateMillis = m.currentMillis,
                                           !.fireButtons[i].autoFirePress = ~@],
                                 i, ~fb.autoFirePress)
                    ELSE m
          ELSE joyFire(m, i, FireSignal(m, i))

\* one iteration of the for loop over fireButtons
fireButtonStep(m, i) ==
  LET fb == m.fireButtons[i]
  IN IF fb.fireIsUp
     THEN joyRelease(m, FirePin(m, i))
     ELSE IF fb.autoFire /\ FireSignal(m, i)
          THEN IF fb.autoFireStateMillis = 0
               THEN joyFire([m EXCEPT !.fireButtons[i].autoFireStateMillis = m.currentMillis,
                                      !.fireButtons[i].autoFirePress = TRUE], i, TRUE)
               ELSE IF ElapsedAtLeast(m.currentMillis, fb.autoFireStateMillis,
                                      m.autoFireRateMillis)
                    THEN joyFire([m EXCEPT !.fireButtons[i].autoFireStateMillis = m.currentMillis,
                                           !.fireButtons[i].autoFirePress = ~@],
                                 i, ~fb.autoFirePress)
                    ELSE m
          ELSE joyFire([m EXCEPT !.fireButtons[i].autoFireStateMillis = 0], i, FireSignal(m, i))

\* mutant: only the first fire button is looked at
fireUp_FirstButton(m) ==
  IF m.fireButtons[0].fireIsUp THEN m.nes.nesFire1 ELSE FALSE

\* the local fireUp after the for loop
fireUp(m) ==
  LET u0 == IF m.fireButtons[0].fireIsUp THEN m.nes.nesFire1 ELSE FALSE
  IN IF m.fireButtons[1].fireIsUp THEN m.nes.nesFire2 ELSE u0

\* mutant: the shoulder buttons are left out of Left and Right
driveOutputs_NoShoulder(m) ==
  LET f0 == fireButtonStep(m, 0)
      f1 == fireButtonStep(f0, 1)
      d1 == joyState(f1, f1.joy.joyUp, f1.nes.nesUp \/ fireUp(f1))
      d2 == joyState(d1, d1.joy.joyDown, d1.nes.nesDown)
      d3 == joyState(d2, d2.joy.joyLeft, d2.nes.nesLeft)
      d4 == joyState(d3, d3.joy.joyRight, d3.nes.nesRight)
  IN endJoyBlink(d4)

\* loop() from "bool fireUp = false" to its end
driveOutputs(m) ==
  LET f0 == fireButtonStep(m, 0)
      f1 == fireButtonStep(f0, 1)
      d1 == joyState(f1, f1.joy.joyUp, f1.nes.nesUp \/ fireUp(f1))
      d2 == joyState(d1, d1.joy.joyDown, d1.nes.nesDown)
      d3 == joyState(d2, d2.joy.joyLeft, d2.nes.nesLeft \/ d2.nes.snesL)
      d4 == joyState(d3, d3.joy.joyRight, d3.nes.nesRight \/ d3.nes.snesR)
  IN endJoyBlink(d4)

\* loop() from its start to the end of the combo scan, with millis() reading t and
\* the poll sampling r
loopScan(m, r, t) ==
  LET m0 == [m EXCEPT !.currentMillis = t, !.writes = <<>>, !.fired = <<>>,
                      !.suppressed = FALSE]
  IN comboScan(nesReadButtons(m0, r), 0)

\* mutant: the combo scan does not return, the output code runs in every cycle
loopEnd_AlwaysDrives(m) == driveOutputs(m)

\* the rest of loop(), which the return inside the combo scan skips
loopEnd(m) == IF m.suppressed THEN m ELSE driveOutputs(m)

\* ------------------------------------------------------------ setup()
setupFireButtons(m) ==
  [m EXCEPT !.fireButtons =
     [i \in 0 .. NUM_FIRE_BUTTONS - 1 |->
        [@[i] EXCEPT !.autoFire = ByteToBool(EepromRead(m, AutoFireSetting(i))),
                     !.autoFireStateMillis = 0,
                     !.fireIsUp = IF i = 0 THEN FALSE
                                  ELSE ByteToBool(EepromRead(m, SETTING_FIRE2_UP))]]]

\* the load of autoFireRateMillis with its range repair
loadFireRate(m) ==
  LET m1 == [m EXCEPT !.autoFireRateMillis = EepromRead(m, SETTING_AUTOFIRE_RATE_MILLIS)]
      m2 == IF m1.autoFireRateMillis < AUTOFIRE_RATE_MILLIS_MIN
            THEN EepromWrite([m1 EXCEPT !.autoFireRateMillis = AUTOFIRE_RATE_MILLIS_MIN],
                             SETTING_AUTOFIRE_RATE_MILLIS, AUTOFIRE_RATE_MILLIS_MIN)
            ELSE m1
  IN IF m2.autoFireRateMillis > AUTOFIRE_RATE_MILLIS_MAX
     THEN EepromWrite([m2 EXCEPT !.autoFireRateMillis = AUTOFIRE_RATE_MILLIS_MAX],
                      SETTING_AUTOFIRE_RATE_MILLIS, AUTOFIRE_RATE_MILLIS_MAX)
     ELSE m2

setupBody(m) ==
  LET m1 == [m EXCEPT !.pins = [p \in JoyPinIds |-> "INPUT"], !.writes = <<>>]
      m2 == [m1 EXCEPT !.currentJoyPort = EepromRead(m1, SETTING_JOYPORT),
                       !.fireReversed = ByteToBool(EepromRead(m1, SETTING_FIRE_REVERSED))]
      m3 == loadFireRate(m2)
      m4 == setJoyPort(m3, m3.currentJoyPort)
  IN setupFireButtons(m4)

\* ------------------------------------------------------------ history of autofire runs
\* A run of fire button i starts in the output-driving cycle in which the button is
\* autofiring and its timer was not running when the driver began, goes on while it
\* keeps autofiring in every output-driving cycle, and ends when toggleAutoFire is
\* called for it.  mid is the machine after the combo scan, after the one at the end
\* of loop().
Autofiring(m, i) ==
  ~m.fireButtons[i].fireIsUp /\ m.fireButtons[i].autoFire /\ FireSignal(m, i)

RunNext(i, mid, after) ==
  LET toggled == \E k \in 1 .. Len(after.fired) : after.fired[k] = 2 + i
      going == afRun[i] /\ ~toggled
  IN IF after.suppressed
     THEN [run |-> going, last |-> IF going THEN afLast[i] ELSE 0]
     ELSE IF ~Autofiring(after, i)
          THEN [run |-> FALSE, last |-> 0]
          ELSE IF going
               THEN [run |-> TRUE,
                     last |-> IF after.fireButtons[i].autoFirePress
                                 # mid.fireButtons[i].autoFirePress
                              THEN after.currentMillis ELSE afLast[i]]
               ELSE IF mid.fireButtons[i].autoFireStateMillis = 0
                    THEN [run |-> TRUE, last |-> after.currentMillis]
                    ELSE [run |-> FALSE, last |-> 0]

\* ------------------------------------------------------------ actions
ZeroNes ==
  [nesA |-> FALSE, nesB |-> FALSE, nesSelect |-> FALSE, nesStart |-> FALSE,
   nesUp |-> FALSE, nesDown |-> FALSE, nesLeft |-> FALSE, nesRight |-> FALSE,
   snesA |-> FALSE, snesB |-> FALSE, snesX |-> FALSE, snesY |-> FALSE,
   snesL |-> FALSE, snesR |-> FALSE, nesFire1 |-> FALSE, nesFire2 |-> FALSE,
   snesMode |-> FALSE, snesMouse |-> FALSE,
   mouseDirY |-> FALSE, mouseDY |-> 0, mouseDirX |-> FALSE, mouseDX |-> 0]

ZeroFireButton ==
  [fireIsUp |-> FALSE, autoFire |-> FALSE, autoFirePress |-> FALSE,
   autoFireStateMillis |-> 0, blinked |-> FALSE]

\* Power-on with the durable store holding one of stores: statics are zero, every
\* line is an input
InitWith(stores) ==
  /\ pc = "setup"
  /\ millis = 0
  /\ cycle = 0
  /\ eeprom \in stores
  /\ writes = <<>>
  /\ pins = [p \in JoyPinIds |-> "INPUT"]
  /\ led = [l \in LedIds |-> "LOW"]
  /\ joy = [joyFire1 |-> 0, joyFire2 |-> 0, joyUp |-> 0, joyDown |-> 0,
            joyLeft |-> 0, joyRight |-> 0]
  /\ currentJoyPort = 0
  /\ currentJoyLED = 0
  /\ currentMillis = 0
  /\ autoFireRateMillis = 0
  /\ blinkMillis = 0
  /\ fireReversed = FALSE
  /\ fireButtons = [i \in 0 .. NUM_FIRE_BUTTONS - 1 |-> ZeroFireButton]
  /\ comboPressed = [i \in 0 .. NUM_COMBOS - 1 |-> FALSE]
  /\ nes = ZeroNes
  /\ report = {}
  /\ fired = <<>>
  /\ suppressed = FALSE
  /\ afRun = [i \in 0 .. NUM_FIRE_BUTTONS - 1 |-> FALSE]
  /\ afLast = [i \in 0 .. NUM_FIRE_BUTTONS - 1 |-> 0]

Assign(m) ==
  /\ eeprom' = m.eeprom
  /\ writes' = m.writes
  /\ pins' = m.pins
  /\ led' = m.led
  /\ joy' = m.joy
  /\ currentJoyPort' = m.currentJoyPort
  /\ currentJoyLED' = m.currentJoyLED
  /\ currentMillis' = m.currentMillis
  /\ autoFireRateMillis' = m.autoFireRateMillis
  /\ blinkMillis' = m.blinkMillis
  /\ fireReversed' = m.fireReversed
  /\ fireButtons' = m.fireButtons
  /\ comboPressed' = m.comboPressed
  /\ nes' = m.nes
  /\ fired' = m.fired
  /\ suppressed' = m.suppressed

\* setup(), which ends with the clock reading boot
Setup(boot) ==
  /\ pc = "setup"
  /\ pc' = "loop"
  /\ millis' = boot
  /\ Assign(setupBody(Machine))
  /\ UNCHANGED <<cycle, report, afRun, afLast>>

\* one loop(): the poll samples r, d milliseconds after the last clock reading
Loop(r, d) ==
  /\ pc = "loop"
  /\ cycle < MaxCycles
  /\ LET mid == loopScan(Machine, r, millis + d)
         after == loopEnd(mid)
         run == [i \in 0 .. NUM_FIRE_BUTTONS - 1 |-> RunNext(i, mid, after)]
     IN /\ Assign(after)
        /\ afRun' = [i \in 0 .. NUM_FIRE_BUTTONS - 1 |-> run[i].run]
        /\ afLast' = [i \in 0 .. NUM_FIRE_BUTTONS - 1 |-> run[i].last]
  /\ millis' = millis + d
  /\ cycle' = cycle + 1
  /\ report' = r
  /\ UNCHANGED pc

\* ------------------------------------------------------------ inputs
\* sample numbers of the poll
BitA == 0
BitB == 1
BitSelect == 2
BitStart == 3
BitUp == 4
BitDown == 5
BitLeft == 6
BitRight == 7
BitSnesA == 8
BitSnesX == 9
BitSnesL == 10
BitSnesR == 11
BitMarker == 15
BitMouseDirY == 16
BitMouseDirX == 24

\* An NES pad holding the buttons b: its shift register feeds "pressed" into every
\* sample after the eighth
NesPad(b) == b \cup (8 .. 15)

\* the NES pad's reports of the gesture runs (Fire1 is B and Fire2 is A unless reversed)
GestureReports ==
  { NesPad(b) : b \in { {}, {BitRight}, {BitUp}, {BitA}, {BitB},
                        {BitStart, BitA}, {BitStart, BitB},
                        {BitStart, BitUp}, {BitStart, BitDown},
                        {BitSelect, BitLeft}, {BitSelect, BitRight},
                        {BitSelect, BitLeft, BitRight},
                        {BitSelect, BitUp, BitA}, {BitSelect, BitA} } }

Stores(ports, fire2ups, auto1s, auto2s, rates, reverseds) ==
  { [a \in Addrs |->
       CASE a = SETTING_JOYPORT -> s[1]
         [] a = SETTING_FIRE2_UP -> s[2]
         [] a = SETTING_AUTOFIRE1 -> s[3]
         [] a = SETTING_AUTOFIRE2 -> s[4]
         [] a = SETTING_AUTOFIRE_RATE_MILLIS -> s[5]
         [] a = SETTING_FIRE_REVERSED -> s[6]]
    : s \in ports \X fire2ups \X auto1s \X auto2s \X rates \X reverseds }

\* ------------------------------------------------------------ specifications
\* the store as it leaves the factory, every cell erased
ErasedStore == Stores({255}, {255}, {255}, {255}, {255}, {255})

\* a store holding port 0, no flag set and the fastest rate
PlainStore == Stores({0}, {0}, {0}, {0}, {AUTOFIRE_RATE_MILLIS_MIN}, {0})

\* Gestures on an NES pad, from the erased store and from a plain one
Init == InitWith(ErasedStore \cup PlainStore)

Next ==
  \/ Setup(100)
  \/ \E r \in GestureReports : Loop(r, 10)

Spec == Init /\ [][Next]_vars

\* Rate gestures from every stored rate byte
RateReports ==
  { NesPad(b) : b \in { {}, {BitStart, BitUp}, {BitStart, BitDown} } }

InitRate == InitWith(Stores({0}, {0}, {0}, {0}, 0 .. 255, {0}))

NextRate ==
  \/ Setup(100)
  \/ \E r \in RateReports : Loop(r, 10)

SpecRate == InitRate /\ [][NextRate]_vars

\* Autofire timing: fire buttons held and released around chords, cycles of 10 ms and
\* of 40 ms.  A boot clock of 100 is a power-on; -10 stands for the same machine left
\* idle until the 32-bit millisecond counter is about to wrap (idle cycles change
\* nothing but currentMillis).
AutofireReports ==
  { NesPad(b) : b \in { {}, {BitB}, {BitA}, {BitStart, BitUp}, {BitStart, BitB} } }

InitAutofire ==
  InitWith(Stores({0}, {0}, {1}, {0, 1}, {AUTOFIRE_RATE_MILLIS_MIN}, {0}))

NextAutofire ==
  \/ \E boot \in {100, -10} : Setup(boot)
  \/ \E r \in AutofireReports, d \in {10, 40} : Loop(r, d)

SpecAutofire == InitAutofire /\ [][NextAutofire]_vars

\* Polls of a device that gives the mouse signature: the X motion field (magnitudes
\* 0, 1, 2 and 64), the direction pad samples $06/$07 and a button vary
MouseReports ==
  { {BitMarker} \cup dir \cup mag \cup pad \cup btn :
      dir \in SUBSET {BitMouseDirX},
      mag \in {{}, {31}, {30}, {25}},
      pad \in SUBSET {BitLeft, BitRight},
      btn \in {{}, {BitSnesX}} }

NextMouse ==
  \/ Setup(100)
  \/ \E r \in MouseReports \cup {NesPad({})} : Loop(r, 10)

InitMouse == InitWith(PlainStore)

SpecMouse == InitMouse /\ [][NextMouse]_vars

\* Device detection and fire assignment: the two NES/SNES fire samples, Select, the
\* extension samples $08-$0B and the signature samples $0C-$0F vary, with the reversal
\* flag stored either way and toggled by Select+Fire2 on either pad
DecodeReports ==
  { base \cup ext \cup sig :
      base \in SUBSET {BitA, BitB},
      ext \in { {}, {BitSnesA}, {BitSnesX, BitSnesL, BitSnesR},
                {BitSnesA, BitSnesX, BitSnesL, BitSnesR} },
      sig \in { {}, {BitMarker}, {12, BitMarker}, 12 .. 15 } }
  \cup { NesPad({BitSelect, BitA}), {BitSelect, BitSnesA} }

InitDecode == InitWith(Stores({0}, {0}, {0}, {0}, {AUTOFIRE_RATE_MILLIS_MIN}, {0, 1}))

NextDecode ==
  \/ Setup(100)
  \/ \E r \in DecodeReports : Loop(r, 10)

SpecDecode == InitDecode /\ [][NextDecode]_vars

\* Chords against each other on an NES pad, and the controller unplugged (no sample
\* reads true) between them
ChordReports ==
  { NesPad(b) : b \in { {}, {BitB}, {BitA}, {BitUp, BitLeft},
                        {BitSelect, BitA}, {BitSelect, BitB},
                        {BitStart, BitUp, BitDown}, {BitStart, BitDown, BitB},
                        {BitSelect, BitLeft, BitRight}, {BitSelect, BitRight} } }
  \cup { {} }

NextChords ==
  \/ Setup(100)
  \/ \E r \in ChordReports : Loop(r, 10)

InitChords == InitWith(Stores({0}, {0}, {0, 1}, {0}, {100}, {0, 1}))

SpecChords == InitChords /\ [][NextChords]_vars

\* Left and Right on the three devices: the direction pad samples $06/$07 and the
\* shoulder samples $0A/$0B on an SNES pad and under the mouse signature (with X
\* motion of 0 and of 2, either way), an NES pad, and Select+Left on the SNES pad
ShoulderReports ==
  { pad \cup lr : pad \in SUBSET {BitLeft, BitRight}, lr \in SUBSET {BitSnesL, BitSnesR} }
  \cup { NesPad(pad) : pad \in SUBSET {BitLeft, BitRight} }
  \cup { {BitMarker} \cup pad \cup lr \cup mag \cup dir :
           pad \in SUBSET {BitLeft, BitRight}, lr \in {{}, {BitSnesL, BitSnesR}},
           mag \in {{}, {30}}, dir \in SUBSET {BitMouseDirX} }
  \cup { {BitSelect, BitLeft} }

NextShoulder ==
  \/ Setup(100)
  \/ \E r \in ShoulderReports : Loop(r, 10)

InitShoulder == InitWith(Stores({0, 1}, {0}, {0}, {0}, {AUTOFIRE_RATE_MILLIS_MIN}, {0}))

SpecShoulder == InitShoulder /\ [][NextShoulder]_vars

\* Chords under the mouse signature: samples $02/$03 (Select, Start) with the
\* samples of Up and Fire1, or of Left and Fire2, between chords held on an NES pad
MouseChordReports ==
  { {BitMarker} \cup ss \cup btn :
      ss \in SUBSET {BitSelect, BitStart},
      btn \in { {}, {BitUp, BitSnesX}, {BitLeft, BitSnesA} } }
  \cup { NesPad(b) : b \in { {}, {BitStart, BitUp}, {BitSelect, BitRight},
                             {BitSelect, BitA} } }

NextMouseChords ==
  \/ Setup(100)
  \/ \E r \in MouseChordReports : Loop(r, 10)

InitMouseChords == InitWith(PlainStore \cup ErasedStore)

SpecMouseChords == InitMouseChords /\ [][NextMouseChords]_vars

\* ------------------------------------------------------------ claims
InSeq(f, i) == \E k \in 1 .. Len(f) : f[k] = i

\* the values written to addr, in order
WritesTo(w, addr) ==
  LET hits == SelectSeq(w, LAMBDA x : x[1] = addr)
  IN [k \in 1 .. Len(hits) |-> hits[k][3]]

OtherPins(n) == {joy.joyUp, joy.joyDown, joy.joyLeft, joy.joyRight,
                 joy.joyFire1, joy.joyFire2} \ {n}

\* C1: Start+Fire1 (without Up or Down) toggles the autofire flag of fire button 1
\* on release only.  In a cycle in which the chord is held the flag keeps its value
\* and the gesture is armed; in the first cycle after that in which none of the
\* Start chords ahead of it or the chord itself is held, the flag is toggled and the
\* gesture disarmed; and the flag changes in no cycle that starts with the gesture
\* not armed, so one hold gives one toggle.
C1_Chord(n) == ComboHeld(n, 2) /\ ~ComboHeld(n, 0) /\ ~ComboHeld(n, 1)

C1_Released(n) == ~ComboHeld(n, 2) /\ ~ComboHeld(n, 0) /\ ~ComboHeld(n, 1)

C1_EdgeTriggered ==
  [][pc = "loop" =>
       /\ C1_Chord(nes') =>
            /\ fireButtons'[0].autoFire = fireButtons[0].autoFire
            /\ comboPressed'[2]
       /\ (comboPressed[2] /\ C1_Released(nes')) =>
            /\ fireButtons'[0].autoFire = ~fireButtons[0].autoFire
            /\ ~comboPressed'[2]
       /\ ~comboPressed[2] => fireButtons'[0].autoFire = fireButtons[0].autoFire]_vars

\* the toggle has just happened, the chord's buttons released
C1_Witness ==
  /\ pc = "loop"
  /\ fired = <<2>>
  /\ ~nes.nesStart /\ ~nes.nesFire1
  /\ ~comboPressed[2]
  /\ cycle >= 3

\* C3: every EEPROM.write of a loop() stores a value that differs from the byte the
\* address held, and increasFireRate at MIN and decreaseFireRate at MAX write nothing.
C3_WritesChange ==
  [][pc = "loop" =>
       /\ \A k \in 1 .. Len(writes') : writes'[k][2] # writes'[k][3]
       /\ (autoFireRateMillis = AUTOFIRE_RATE_MILLIS_MIN /\ InSeq(fired', 0)
             /\ ~InSeq(fired', 1))
            => WritesTo(writes', SETTING_AUTOFIRE_RATE_MILLIS) = <<>>
       /\ (autoFireRateMillis = AUTOFIRE_RATE_MILLIS_MAX /\ InSeq(fired', 1)
             /\ ~InSeq(fired', 0))
            => WritesTo(writes', SETTING_AUTOFIRE_RATE_MILLIS) = <<>>]_vars

\* two gesture actions wrote in one cycle
C3_Witness == pc = "loop" /\ cycle > 0 /\ Len(fired) >= 2 /\ Len(writes) >= 2

\* C4: setJoyPort0/setJoyPort1 called for the active port write nothing and leave the
\* line set alone; called for the other port they write the port once and the six
\* line identifiers and the indicator are that port's.  (Both are called in one cycle
\* when both gestures were armed: port 0 first, then port 1.)
C4_PortSelect ==
  [][pc = "loop" =>
       LET w == WritesTo(writes', SETTING_JOYPORT)
           to0 == InSeq(fired', 5)
           to1 == InSeq(fired', 6)
       IN /\ (to0 /\ ~to1) =>
               /\ w = IF currentJoyPort = 0 THEN <<>> ELSE <<0>>
               /\ currentJoyPort' = 0
          /\ (to1 /\ ~to0) =>
               /\ w = IF currentJoyPort = 1 THEN <<>> ELSE <<1>>
               /\ currentJoyPort' = 1
          /\ (to0 /\ to1) =>
               /\ w = IF currentJoyPort = 0 THEN <<1>> ELSE <<0, 1>>
               /\ currentJoyPort' = 1
          /\ (~to0 /\ ~to1) => w = <<>> /\ currentJoyPort' = currentJoyPort
          /\ currentJoyPort' = currentJoyPort =>
               joy' = joy /\ currentJoyLED' = currentJoyLED
          /\ joy' = PortPins(currentJoyPort')
          /\ currentJoyLED' = PortLed(currentJoyPort')
          /\ eeprom'[SETTING_JOYPORT] = currentJoyPort']_vars

\* port 1 has just been selected from port 0, and the driver ran on its lines
C4_Witness ==
  /\ pc = "loop"
  /\ fired = <<6>>
  /\ writes = <<<<SETTING_JOYPORT, 0, 1>>>>
  /\ joy = PortPins(1)
  /\ ~suppressed

\* C7: while Fire2 is mapped to Up, the Fire2 line of the active port floats at the
\* end of every cycle.
C7_Fire2LineReleased ==
  (pc = "loop" /\ fireButtons[1].fireIsUp) => pins[joy.joyFire2] = "INPUT"

\* C8: in an output-driving cycle with Fire2 mapped to Up, the Up line is held low
\* exactly when Up or Fire2 is asserted, whatever the autofire flag of fire button 2.
C8_Fire2DrivesUp ==
  (pc = "loop" /\ cycle > 0 /\ ~suppressed /\ fireButtons[1].fireIsUp)
    => (pins[joy.joyUp] = "OUTPUT" <=> (nes.nesUp \/ nes.nesFire2))

\* Fire2 alone holds Up low, with autofire on for it
C8_Witness ==
  /\ pc = "loop" /\ cycle > 1 /\ ~suppressed
  /\ fireButtons[1].fireIsUp /\ fireButtons[1].autoFire
  /\ nes.nesFire2 /\ ~nes.nesUp
  /\ pins[joy.joyUp] = "OUTPUT"

\* C9: after a cycle whose decoded input is Right alone, the Right line of the active
\* port is held low and its other five lines float.
OnlyRight(n) ==
  /\ n.nesRight
  /\ ~n.nesUp /\ ~n.nesDown /\ ~n.nesLeft /\ ~n.snesL /\ ~n.snesR
  /\ ~n.nesFire1 /\ ~n.nesFire2 /\ ~n.nesStart /\ ~n.nesSelect

C9_OnlyRight ==
  (pc = "loop" /\ cycle > 0 /\ OnlyRight(nes))
    => /\ pins[joy.joyRight] = "OUTPUT"
       /\ \A p \in OtherPins(joy.joyRight) : pins[p] = "INPUT"

\* Right alone, in a cycle in which a gesture action also ran
C9_Witness ==
  /\ pc = "loop" /\ cycle > 1 /\ OnlyRight(nes) /\ fired # <<>>
  /\ pins[joy.joyRight] = "OUTPUT"

\* C2: after setup() the autofire interval is within [MIN, MAX], whatever byte the
\* store held and whatever rate gestures followed.
C2_RateInRange ==
  pc = "loop" =>
    /\ autoFireRateMillis >= AUTOFIRE_RATE_MILLIS_MIN
    /\ autoFireRateMillis <= AUTOFIRE_RATE_MILLIS_MAX

\* a decrease that had to be clamped: 145 + 10 stored as 150
C2_Witness ==
  /\ pc = "loop"
  /\ fired = <<1>>
  /\ writes = <<<<SETTING_AUTOFIRE_RATE_MILLIS, 145, AUTOFIRE_RATE_MILLIS_MAX>>>>
  /\ autoFireRateMillis = AUTOFIRE_RATE_MILLIS_MAX

\* C5: an autofire run starts with the line held low and the phase on, and from then
\* on the phase flips in exactly the output-driving cycles whose timestamp is at
\* least autoFireRateMillis after the run's start or last flip.
C5_Going(i) == afRun[i] /\ ~InSeq(fired', 2 + i)

C5_AutofirePhase ==
  [][pc = "loop" =>
       \A i \in 0 .. NUM_FIRE_BUTTONS - 1 :
         (~suppressed' /\ Autofiring([fireButtons |-> fireButtons', nes |-> nes'], i)) =>
           /\ (~C5_Going(i) /\ afRun'[i]) =>
                /\ pins'[FirePin([joy |-> joy'], i)] = "OUTPUT"
                /\ fireButtons'[i].autoFirePress
           /\ C5_Going(i) =>
                ((fireButtons'[i].autoFirePress # fireButtons[i].autoFirePress)
                   <=> ElapsedAtLeast(currentMillis', afLast[i], autoFireRateMillis'))]_vars

\* C6 as claimed: after any cycle in which the fire signal of an autofiring button is
\* de-asserted its line floats, and in the next cycle in which the signal is asserted
\* the line is held low with the phase on.
C6_Enabled(fb, i) == fb[i].autoFire /\ ~fb[i].fireIsUp

C10_MouseX ==
  (pc = "loop" /\ cycle > 0 /\ nes.snesMouse) =>
    /\ (readMouseDelta(report, BitMouseDirX + 1) > MOUSE_MOVEMENT_THRESHOLD
          /\ Bit(report, BitMouseDirX))
         => (nes.nesLeft /\ ~nes.nesRight)
    /\ readMouseDelta(report, BitMouseDirX + 1) <= MOUSE_MOVEMENT_THRESHOLD
         => (~nes.nesLeft /\ ~nes.nesRight)

\* C11: a poll without the mouse signature is decoded as an NES pad exactly when the
\* four extension samples $08-$0B all read true, and as an SNES pad otherwise.
ExtensionAllTrue(r) == {BitSnesA, BitSnesX, BitSnesL, BitSnesR} \subseteq r

C11_NesOrSnes ==
  (pc = "loop" /\ cycle > 0 /\ report \cap (12 .. BitMarker) # {BitMarker})
    => /\ ~nes.snesMouse
       /\ nes.snesMode <=> ~ExtensionAllTrue(report)

\* an SNES pad with three of the four extension buttons held
C11_Witness ==
  /\ pc = "loop" /\ cycle > 0
  /\ report \cap (BitSnesA .. BitMarker) = {BitSnesX, BitSnesL, BitSnesR}
  /\ nes.snesMode /\ ~nes.snesMouse

\* C12: a poll is decoded as the mouse exactly when samples $0C-$0E read false and
\* sample $0F reads true, whatever the extension samples $08-$0B read.
C12_MouseSignature ==
  (pc = "loop" /\ cycle > 0)
    => (nes.snesMouse <=> (report \cap (12 .. BitMarker) = {BitMarker}))

\* the signature with all four extension samples true, which without it is an NES pad
C12_Witness ==
  /\ pc = "loop" /\ cycle > 0
  /\ ExtensionAllTrue(report)
  /\ report \cap (12 .. BitMarker) = {BitMarker}
  /\ nes.snesMouse

\* C19: the poll assigns Fire1/Fire2 from samples 1/0 for an NES pad and from samples
\* 0/8 for an SNES pad, swapped when the reversal flag (as it is when the poll is
\* taken) is set, and from samples 9/8 for the mouse whatever the flag.
C19_Fire(r, rev) ==
  IF MouseSignature(r)
  THEN <<Bit(r, BitSnesX), Bit(r, BitSnesA)>>
  ELSE LET pad == IF ExtensionAllTrue(r)
                  THEN <<Bit(r, BitB), Bit(r, BitA)>>
                  ELSE <<Bit(r, BitA), Bit(r, BitSnesA)>>
       IN IF rev THEN <<pad[2], pad[1]>> ELSE pad

C19_FireAssignment ==
  [][pc = "loop" =>
       <<nes'.nesFire1, nes'.nesFire2>> = C19_Fire(report', fireReversed)]_vars

\* an SNES pad with B held and the flag set: Fire2 without Fire1
C19_Witness ==
  /\ pc = "loop" /\ cycle > 0
  /\ fireReversed /\ fired = <<>>
  /\ ~MouseSignature(report) /\ ~ExtensionAllTrue(report)
  /\ BitA \in report /\ BitSnesA \notin report
  /\ nes.nesFire2 /\ ~nes.nesFire1

\* C13: at the end of a cycle in which a gesture's chord is held, no joystick line of
\* either port is held low.
C13_ChordDrivesNothing ==
  (pc = "loop" /\ cycle > 0 /\ \E i \in 0 .. NUM_COMBOS - 1 : ComboHeld(nes, i))
    => \A p \in JoyPinIds : pins[p] = "INPUT"

\* C14: after setup() every setting byte of the store is in its range: the port and
\* the four flags 0 or 1, the rate within [MIN, MAX].
C14_StoreInRange ==
  pc = "loop" =>
    /\ \A a \in {SETTING_JOYPORT, SETTING_FIRE2_UP, SETTING_AUTOFIRE1, SETTING_AUTOFIRE2,
                 SETTING_FIRE_REVERSED} : eeprom[a] \in {0, 1}
    /\ eeprom[SETTING_AUTOFIRE_RATE_MILLIS] >= AUTOFIRE_RATE_MILLIS_MIN
    /\ eeprom[SETTING_AUTOFIRE_RATE_MILLIS] <= AUTOFIRE_RATE_MILLIS_MAX

\* C16: the indicator of the active port, switched off by a fire onset at a loop
\* timestamp t (which startJoyBlink keeps in blinkMillis), is on again at the end of
\* every cycle whose timestamp is t + BLINK_MILLIS or later.
C16_BlinkEnds ==
  (pc = "loop" /\ cycle > 0 /\ led[currentJoyLED] = "LOW")
    => ~ElapsedAtLeast(currentMillis, blinkMillis, BLINK_MILLIS)

\* C15: a poll in which no sample reads true (no controller) is not decoded as the
\* mouse, decodes no direction, no fire, no Start and no Select, arms no gesture, and
\* leaves the six lines of the active port floating at the end of the cycle.
C15_AbsentController ==
  [][(pc = "loop" /\ report' = {}) =>
       /\ ~nes'.snesMouse
       /\ ~nes'.nesUp /\ ~nes'.nesDown /\ ~nes'.nesLeft /\ ~nes'.nesRight
       /\ ~nes'.snesL /\ ~nes'.snesR
       /\ ~nes'.nesFire1 /\ ~nes'.nesFire2 /\ ~nes'.nesStart /\ ~nes'.nesSelect
       /\ \A i \in 0 .. NUM_COMBOS - 1 : comboPressed'[i] => comboPressed[i]
       /\ \A p \in {joy'.joyUp, joy'.joyDown, joy'.joyLeft, joy'.joyRight,
                    joy'.joyFire1, joy'.joyFire2} : pins'[p] = "INPUT"]_vars

\* the controller goes away while a chord is held: the armed gestures act, port 1 is
\* selected and its lines float
C15_Witness ==
  /\ pc = "loop" /\ cycle >= 2
  /\ report = {}
  /\ InSeq(fired, 6)
  /\ currentJoyPort = 1
  /\ \A p \in JoyPinIds : pins[p] = "INPUT"

\* C17: on an NES pad, Select held with one fire button (A or B) alone and then
\* released leaves that button as logical Fire1 (B with the reversal flag clear, A
\* with it set), with the stored flag saying the same.
C17_SelectFire ==
  [][\A x \in {BitA, BitB} :
       (pc = "loop" /\ cycle > 0 /\ report = NesPad({BitSelect, x})
          /\ report' = NesPad({}))
         => /\ fireReversed' = (x = BitA)
            /\ eeprom'[SETTING_FIRE_REVERSED] = BoolToByte(fireReversed')]_vars

\* C18: increasFireRate takes the interval from r to max(MIN, r - DELTA) and
\* decreaseFireRate from r to min(MAX, r + DELTA) (one after the other when both
\* gestures are released in one cycle); the store holds the new interval, both fire
\* buttons time their phases with it, and no other setting changes.
C18_Faster(r) ==
  IF r - AUTOFIRE_RATE_ADJUST_DELTA < AUTOFIRE_RATE_MILLIS_MIN
  THEN AUTOFIRE_RATE_MILLIS_MIN ELSE r - AUTOFIRE_RATE_ADJUST_DELTA

C18_Slower(r) ==
  IF r + AUTOFIRE_RATE_ADJUST_DELTA > AUTOFIRE_RATE_MILLIS_MAX
  THEN AUTOFIRE_RATE_MILLIS_MAX ELSE r + AUTOFIRE_RATE_ADJUST_DELTA

C18_RateStep ==
  [][pc = "loop" =>
       LET up == InSeq(fired', 0)
           down == InSeq(fired', 1)
           r == autoFireRateMillis
       IN /\ autoFireRateMillis' =
               CASE up /\ ~down -> C18_Faster(r)
                 [] down /\ ~up -> C18_Slower(r)
                 [] up /\ down -> C18_Slower(C18_Faster(r))
                 [] OTHER -> r
          /\ eeprom'[SETTING_AUTOFIRE_RATE_MILLIS] = autoFireRateMillis'
          /\ (up \/ down) =>
               /\ \A a \in Addrs \ {SETTING_AUTOFIRE_RATE_MILLIS} : eeprom'[a] = eeprom[a]
               /\ currentJoyPort' = currentJoyPort
               /\ fireReversed' = fireReversed
               /\ \A i \in 0 .. NUM_FIRE_BUTTONS - 1 :
                    /\ fireButtons'[i].autoFire = fireButtons[i].autoFire
                    /\ fireButtons'[i].fireIsUp = fireButtons[i].fireIsUp]_vars

\* Start+Up released at 100 ms: the interval is 90 ms
C18_Witness ==
  /\ pc = "loop"
  /\ fired = <<0>>
  /\ writes = <<<<SETTING_AUTOFIRE_RATE_MILLIS, 100, 90>>>>
  /\ autoFireRateMillis = 90

\* C20: in a cycle in which the chord of gesture i is held, no gesture after it in
\* the table is armed, disarmed or acted on, and the output code does not run: the
\* lines, the indicators, the blink and the fire buttons are as the combo scan left
\* them.
C20_FirstChordWins ==
  [][pc = "loop" =>
       \A i \in 0 .. NUM_COMBOS - 1 :
         ComboHeld(nes', i) =>
           /\ \A j \in i + 1 .. NUM_COMBOS - 1 :
                comboPressed'[j] = comboPressed[j] /\ ~InSeq(fired', j)
           /\ LET mid == loopScan(Machine, report', currentMillis')
              IN /\ pins' = mid.pins
                 /\ led' = mid.led
                 /\ blinkMillis' = mid.blinkMillis
                 /\ fireButtons' = mid.fireButtons]_vars

\* Start, Up and Down are held after Start+Down armed the decrease gesture: only the
\* increase gesture becomes armed, the decrease gesture stays armed without acting
C20_Witness ==
  /\ pc = "loop" /\ cycle >= 2
  /\ nes.nesStart /\ nes.nesUp /\ nes.nesDown
  /\ comboPressed[0] /\ comboPressed[1]
  /\ fired = <<>>
  /\ suppressed

\* how many times handler i was called
Count(f, i) == Cardinality({k \in 1 .. Len(f) : f[k] = i})

\* C21 as claimed: in the first cycle in which an armed gesture's chord is not held,
\* whatever else is held, its action is called once and its armed flag cleared.
C21_FiresOnRelease ==
  [][pc = "loop" =>
       \A i \in 0 .. NUM_COMBOS - 1 :
         (comboPressed[i] /\ ~ComboHeld(nes', i))
           => Count(fired', i) = 1 /\ ~comboPressed'[i]]_vars

\* C21 as amended: in the first cycle in which an armed gesture's chord is not held
\* and no chord of a gesture ahead of it in the table is held, its action is called
\* once and its armed flag cleared.
C21_FiresOnReleaseInOrder ==
  [][pc = "loop" =>
       \A i \in 0 .. NUM_COMBOS - 1 :
         (/\ comboPressed[i] /\ ~ComboHeld(nes', i)
          /\ \A k \in 0 .. i - 1 : ~ComboHeld(nes', k))
           => Count(fired', i) = 1 /\ ~comboPressed'[i]]_vars

\* Start+Fire2 is let go while Select+Fire2, further down the table, is held: the
\* autofire gesture acts in the chord cycle
C21_Witness ==
  /\ pc = "loop" /\ cycle >= 2
  /\ fired = <<3>>
  /\ ~comboPressed[3]
  /\ ComboHeld(nes, 7) /\ suppressed

\* C22: an action is called only in a cycle that began with its gesture armed, and
\* at most once; the armed flag is cleared in exactly the cycles in which the action
\* is called; and a cycle in which no chord is held ends with no gesture armed,
\* every gesture that was armed having acted.
C22_ExactlyOnce ==
  [][pc = "loop" =>
       /\ \A i \in 0 .. NUM_COMBOS - 1 :
            /\ InSeq(fired', i) => comboPressed[i]
            /\ Count(fired', i) <= 1
            /\ InSeq(fired', i) <=> (comboPressed[i] /\ ~comboPressed'[i])
       /\ (\A k \in 0 .. NUM_COMBOS - 1 : ~ComboHeld(nes', k))
            => \A i \in 0 .. NUM_COMBOS - 1 :
                 /\ ~comboPressed'[i]
                 /\ comboPressed[i] => Count(fired', i) = 1]_vars

\* Start+Down was armed, then Start+Up held over it, then all let go: both act, in
\* table order
C22_Witness ==
  /\ pc = "loop" /\ cycle >= 3
  /\ fired = <<0, 1>>
  /\ \A i \in 0 .. NUM_COMBOS - 1 : ~comboPressed[i] /\ ~ComboHeld(nes, i)

\* C24: toggleAutoFire(b) flips the autofire flag of button b and stores it, and
\* leaves the other button's flag alone; when a chord further down the table ends the
\* cycle there, b's timer is not running and b's line on the port floats, the other
\* button's timer and line being as they were; when the output code runs in the same
\* cycle and b autofires, the run starts there with the line held low, phase on.
C24_ToggleAutoFire ==
  [][pc = "loop" =>
       \A b \in 0 .. NUM_FIRE_BUTTONS - 1 :
         InSeq(fired', 2 + b) =>
           LET o == 1 - b
               otherToo == InSeq(fired', 2 + o)
           IN /\ fireButtons'[b].autoFire = ~fireButtons[b].autoFire
              /\ eeprom'[AutoFireSetting(b)] = BoolToByte(fireButtons'[b].autoFire)
              /\ Count(WritesTo(writes', AutoFireSetting(b)),
                       BoolToByte(fireButtons'[b].autoFire)) = 1
              /\ ~otherToo =>
                   /\ fireButtons'[o].autoFire = fireButtons[o].autoFire
                   /\ eeprom'[AutoFireSetting(o)] = eeprom[AutoFireSetting(o)]
              /\ suppressed' =>
                   /\ fireButtons'[b].autoFireStateMillis = 0
                   /\ pins'[FirePin([joy |-> joy], b)] = "INPUT"
                   /\ ~otherToo =>
                        /\ fireButtons'[o].autoFireStateMillis
                             = fireButtons[o].autoFireStateMillis
                        /\ pins'[FirePin([joy |-> joy], o)] = pins[FirePin([joy |-> joy], o)]
              /\ (~suppressed' /\ Autofiring([fireButtons |-> fireButtons', nes |-> nes'], b))
                   => /\ fireButtons'[b].autoFirePress
                      /\ fireButtons'[b].autoFireStateMillis = currentMillis'
                      /\ pins'[FirePin([joy |-> joy'], b)] = "OUTPUT"]_vars

\* autofire of fire button 1 is switched off while Select+Left is held, after Fire1
\* had its line low: the line floats
C24_Witness ==
  /\ pc = "loop" /\ cycle >= 3
  /\ fired = <<2>> /\ suppressed
  /\ ~fireButtons[0].autoFire
  /\ fireButtons[0].blinked
  /\ pins[joy.joyFire1] = "INPUT"

\* the first entry of the table whose chord is held
FirstHeld(n) ==
  CHOOSE i \in 0 .. NUM_COMBOS - 1 :
    ComboHeld(n, i) /\ \A k \in 0 .. i - 1 : ~ComboHeld(n, k)

\* C23: a cycle in which a chord is held and no action is called changes nothing but
\* the armed flag of the first gesture held, which becomes true: the settings, the
\* store, the lines of both ports, the fire buttons' phases and timers, the blink
\* timer and the indicators are as they were.
C23_HoldChangesNothing ==
  [][(pc = "loop" /\ fired' = <<>>
        /\ \E i \in 0 .. NUM_COMBOS - 1 : ComboHeld(nes', i)) =>
       /\ comboPressed' = [comboPressed EXCEPT ![FirstHeld(nes')] = TRUE]
       /\ writes' = <<>>
       /\ UNCHANGED <<eeprom, pins, led, joy, currentJoyPort, currentJoyLED,
                      autoFireRateMillis, fireReversed, fireButtons, blinkMillis>>]_vars

\* a chord is held while Fire2 has its line low and the blink it started is running
C23_Witness ==
  /\ pc = "loop" /\ cycle >= 2
  /\ suppressed /\ fired = <<>>
  /\ ComboHeld(nes, 7) /\ comboPressed[7]
  /\ pins[joy.joyFire2] = "OUTPUT"
  /\ blinkMillis # 0 /\ led[currentJoyLED] = "LOW"

\* C25: at the end of an output-driving cycle, Left and Right are held low as follows:
\* for the mouse, from the X motion when it is above the threshold and from samples
\* $06/$07 otherwise; for an SNES pad, from samples $06/$07 or the shoulder samples
\* $0A/$0B; for an NES pad, from samples $06/$07 alone.
C25_Left(r) ==
  IF MouseSignature(r)
  THEN IF readMouseDelta(r, BitMouseDirX + 1) > MOUSE_MOVEMENT_THRESHOLD
       THEN Bit(r, BitMouseDirX) ELSE Bit(r, BitLeft)
  ELSE IF ExtensionAllTrue(r) THEN Bit(r, BitLeft)
       ELSE Bit(r, BitLeft) \/ Bit(r, BitSnesL)

C25_Right(r) ==
  IF MouseSignature(r)
  THEN IF readMouseDelta(r, BitMouseDirX + 1) > MOUSE_MOVEMENT_THRESHOLD
       THEN ~Bit(r, BitMouseDirX) ELSE Bit(r, BitRight)
  ELSE IF ExtensionAllTrue(r) THEN Bit(r, BitRight)
       ELSE Bit(r, BitRight) \/ Bit(r, BitSnesR)

C25_LeftRight ==
  (pc = "loop" /\ cycle > 0 /\ ~suppressed)
    => /\ nes.snesMouse = MouseSignature(report)
       /\ ~nes.snesMouse => (nes.snesMode = ~ExtensionAllTrue(report))
       /\ pins[joy.joyLeft] = "OUTPUT" <=> C25_Left(report)
       /\ pins[joy.joyRight] = "OUTPUT" <=> C25_Right(report)

\* the L shoulder button of an SNES pad alone holds Left low
C25_Witness ==
  /\ pc = "loop" /\ cycle > 0 /\ ~suppressed
  /\ ~nes.snesMouse /\ nes.snesMode
  /\ report = {BitSnesL}
  /\ pins[joy.joyLeft] = "OUTPUT" /\ pins[joy.joyRight] = "INPUT"

\* C26: after setup() the six lines of the port that is not selected float.
C26_OtherPortFloats ==
  pc = "loop" =>
    LET other == PortPins(1 - currentJoyPort)
    IN \A p \in {other.joyUp, other.joyDown, other.joyLeft, other.joyRight,
                 other.joyFire1, other.joyFire2} : pins[p] = "INPUT"

\* C27: from the end of setup() on, the port, the rate and the four flags in memory
\* are what the store holds at their addresses (a flag is true for a non-zero byte),
\* and they change only in cycles in which a gesture action is called.
C27_Agree(e, port, rate, rev, fb) ==
  /\ e[SETTING_JOYPORT] = port
  /\ e[SETTING_AUTOFIRE_RATE_MILLIS] = rate
  /\ ByteToBool(e[SETTING_FIRE_REVERSED]) = rev
  /\ ByteToBool(e[SETTING_FIRE2_UP]) = fb[1].fireIsUp
  /\ ~fb[0].fireIsUp
  /\ \A i \in 0 .. NUM_FIRE_BUTTONS - 1 :
       ByteToBool(e[AutoFireSetting(i)]) = fb[i].autoFire

C27_Settings(port, rate, rev, fb) ==
  <<port, rate, rev, fb[1].fireIsUp, fb[0].autoFire, fb[1].autoFire>>

C27_MemoryIsStore ==
  [][/\ pc' = "loop" =>
          C27_Agree(eeprom', currentJoyPort', autoFireRateMillis', fireReversed',
                    fireButtons')
     /\ (pc = "loop" /\ fired' = <<>>) =>
          /\ C27_Settings(currentJoyPort', autoFireRateMillis', fireReversed', fireButtons')
               = C27_Settings(currentJoyPort, autoFireRateMillis, fireReversed, fireButtons)
          /\ eeprom' = eeprom]_vars

\* Fire2-as-Up has been switched off on a store that was erased: its byte is 0, the
\* autofire bytes are still 255 and read as true
C27_Witness ==
  /\ pc = "loop"
  /\ fired = <<4>>
  /\ ~fireButtons[1].fireIsUp /\ eeprom[SETTING_FIRE2_UP] = 0
  /\ fireButtons[0].autoFire /\ eeprom[SETTING_AUTOFIRE1] = 255

\* C28: a cycle decoded as the mouse has Start and Select false whatever was sampled,
\* holds no chord, leaves no gesture armed and runs the output code; the actions it
\* calls are those of gestures armed before it, and after a mouse cycle a further
\* mouse cycle calls none and changes no setting.
C28_MouseNoGesture ==
  [][(pc = "loop" /\ nes'.snesMouse) =>
       /\ ~nes'.nesStart /\ ~nes'.nesSelect
       /\ \A i \in 0 .. NUM_COMBOS - 1 :
            /\ ~ComboHeld(nes', i)
            /\ ~comboPressed'[i]
            /\ InSeq(fired', i) => comboPressed[i]
       /\ ~suppressed'
       /\ (cycle > 0 /\ nes.snesMouse) =>
            /\ fired' = <<>>
            /\ writes' = <<>>
            /\ eeprom' = eeprom
            /\ C27_Settings(currentJoyPort', autoFireRateMillis', fireReversed',
                            fireButtons')
                 = C27_Settings(currentJoyPort, autoFireRateMillis, fireReversed,
                                fireButtons)]_vars

\* the mouse signature with samples $02, $03 and $04 true (Select, Start, Up), after a
\* mouse cycle: nothing is armed and Up is held low
C28_Witness ==
  /\ pc = "loop" /\ cycle >= 2
  /\ nes.snesMouse
  /\ {BitSelect, BitStart, BitUp} \subseteq report
  /\ fired = <<>> /\ ~suppressed
  /\ \A i \in 0 .. NUM_COMBOS - 1 : ~comboPressed[i]
  /\ pins[joy.joyUp] = "OUTPUT"

\* C29: after setup() the indicator of the port that is not selected is low, and the
\* indicator of the selected port is high whenever blinkMillis is 0.
C29_Indicators ==
  pc = "loop" =>
    /\ currentJoyLED = PortLed(currentJoyPort)
    /\ led[PortLed(1 - currentJoyPort)] = "LOW"
    /\ blinkMillis = 0 => led[currentJoyLED] = "HIGH"

====
